---- MODULE Spec2Model ----
(***************************************************************************)
(* A model of the bulletin-board message repositories: the macro-generated *)
(* add / get / edit / delete handlers of src/messages.rs, the sweep        *)
(* remove_old_messages, the snapshot of BackupSystem::perform_backup, and  *)
(* the std::sync::Mutex (with poisoning) that guards each repository.      *)
(***************************************************************************)
EXTENDS Integers, Sequences, FiniteSets, TLC

\* ------------------------------------------------------------------ bounds
\* How many ids Uuid::new_v4 hands out in a run.
MaxId == 2
\* The last instant of the wall clock (Utc::now() ranges over 0..MaxTime).
MaxTime == 1

\* ---------------------------------------------------------------- constants
\* The six routes "/api/messages/<lang>" the macros are instantiated for.
Langs == {"en", "es", "fr", "it", "po", "de"}

\* The six Arc<Mutex<Vec<Message>>> values main() constructs.
RepoNames == {"en", "es", "fr", "it", "po", "de"}

\* The order in which main() hands the repositories to App::app_data.
Registered == <<"en", "es", "fr", "it", "po", "de">>

\* The one Rust type all six registrations share.
RepoType == "Data<Arc<Mutex<Vec<Message>>>>"

\* Request bodies (Json<String>, EditMessage.content).
Contents == {"a", "b"}

\* Ids a client may name in an edit or a delete (issued or not).
Ids == 1..MaxId

\* The actix workers that run handlers in parallel.
Handlers == {"h1", "h2"}

\* The task that calls remove_old_messages, and the backup task.
Reaper == "reaper"
Backup == "backup"
Procs == Handlers \cup {Reaper, Backup}

\* Values of the max_age argument of remove_old_messages.
MaxAges == 0..MaxTime

\* ------------------------------------------------------------------ state
VARIABLES
    repo,       \* repo[r]: the Vec<Message> behind repository r
    poisoned,   \* poisoned[r]: the Mutex of r was held by a panicking thread
    holders,    \* holders[r]: the processes that hold a MutexGuard of r
    pc,         \* pc[p]: where process p is
    req,        \* req[p]: the request (or call) p is serving
    next_uuid,  \* the next id Uuid::new_v4 returns
    now,        \* the wall clock read by Utc::now()
    resp,       \* the outcome of the step just taken, if it ended an operation
    deleted,    \* history: the ids a delete request has removed
    table,      \* table[t]: the item of token t in the DynamoDB table KoradiTokens
    tokens,     \* the HashMap<String, HashSet<Langs>> of the in-memory registry
    tokens_lock \* the processes that hold the MutexGuard of tokens

\* The state of the in-memory token registry.
memVars == <<tokens, tokens_lock>>

\* The state of the token registries.
clientVars == <<table, tokens, tokens_lock>>

vars == <<repo, poisoned, holders, pc, req, next_uuid, now, resp, deleted, table,
          tokens, tokens_lock>>

NoReq == [op |-> "none", lang |-> "", id |-> 0, content |-> "", max_age |-> 0]
NoResp == [op |-> "none", repo |-> "", status |-> "none", body |-> <<>>]

\* struct Message { id, created, content }
Message(id, created, content) == [id |-> id, created |-> created, content |-> content]

\* ------------------------------------------------- application data wiring
\* App::app_data stores a value under its type: a second value of the same
\* type replaces the first.
AppDataInsert(ext, v) == (RepoType :> v) @@ ext

RECURSIVE AppDataAfter(_)
AppDataAfter(n) ==
    IF n = 0 THEN <<>>
    ELSE AppDataInsert(AppDataAfter(n - 1), Registered[n])

\* The application data main() ends with.
AppData == AppDataAfter(Len(Registered))

\* The repository a handler of route lang receives: its parameter is
\* extracted by type (Data<Arc<Mutex<Vec<Message>>>>), whatever its name.
RepoOf(lang) == AppData[RepoType]

\* The repository handed to BackupSystem::new, and the repositories handed to
\* remove_old_messages: the ones the handlers serve.
BackupRepo == AppData[RepoType]
SweptRepos == {RepoOf(l) : l \in Langs}

\* Mutant of NewUuid: a generator that hands out the id it issued last again.
NewUuidRepeats == IF next_uuid > 1 THEN next_uuid - 1 ELSE next_uuid

\* Uuid::new_v4(): a random 122-bit id, taken never to repeat.
NewUuid == next_uuid

\* ------------------------------------------------------------ pure helpers
\* iter().position(|x| x.id == id): the first index whose id matches, 0 for None.
Position(s, id) ==
    IF \E i \in 1..Len(s) : s[i].id = id
    THEN CHOOSE i \in 1..Len(s) : s[i].id = id /\ \A j \in 1..(i - 1) : s[j].id # id
    ELSE 0

\* Mutant of Remove: Vec::truncate(index - 1), which also drops what follows.
RemoveTruncates(s, i) == SubSeq(s, 1, i - 1)

\* Vec::remove(index): drops the element, shifting the rest left.
Remove(s, i) == [k \in 1..(Len(s) - 1) |-> IF k < i THEN s[k] ELSE s[k + 1]]

\* Mutant of Keeps: a message whose age equals max_age survives.
KeepsInclusive(msg, t, max_age) == t - msg.created <= max_age

\* The retain predicate of remove_old_messages.
Keeps(msg, t, max_age) == t - msg.created < max_age

\* Mutant of Retain: a sweep that removes only the first expired message it meets.
RECURSIVE RetainStopsAtFirst(_, _, _)
RetainStopsAtFirst(s, t, max_age) ==
    IF s = <<>> THEN <<>>
    ELSE IF Keeps(Head(s), t, max_age)
         THEN <<Head(s)>> \o RetainStopsAtFirst(Tail(s), t, max_age)
         ELSE Tail(s)

\* Vec::retain: keeps, in order, the elements the predicate accepts.
RECURSIVE Retain(_, _, _)
Retain(s, t, max_age) ==
    IF s = <<>> THEN <<>>
    ELSE IF Keeps(Head(s), t, max_age)
         THEN <<Head(s)>> \o Retain(Tail(s), t, max_age)
         ELSE Retain(Tail(s), t, max_age)

\* serde_json of a Vec<Message>: an array of objects, one per message, fields
\* in declaration order.
ToJson(s) == [i \in 1..Len(s) |-> <<<<"id", s[i].id>>, <<"created", s[i].created>>, <<"content", s[i].content>>>>]

\* Deserializing such an array (the tests' read_body_json).
FromJson(j) == [i \in 1..Len(j) |-> Message(j[i][1][2], j[i][2][2], j[i][3][2])]

\* ------------------------------------------------------------------- mutex
\* Mutant of CanLock: a lock that never makes anyone wait.
CanLockAlways(r) == TRUE

\* Mutex::lock blocks until no guard is out.
CanLock(r) == holders[r] = {}

\* Mutant of Acquire: the vector is used without taking the lock.
AcquireNothing(p, r) == holders

\* The guard lock() returns.
Acquire(p, r) == [holders EXCEPT ![r] = @ \cup {p}]

\* Mutant of Release: the guard is leaked (mem::forget) and the mutex stays locked.
ReleaseLeaks(p, r) == holders

\* Dropping the guard on a normal exit.
Release(p, r) == [holders EXCEPT ![r] = @ \ {p}]

\* ------------------------------------------------------------------- init
\* ------------------------------------------------------------------- langs
\* enum Langs: a value is the position of its variant in the declaration;
\* LangNames[l] is the name to_string (and the derived Serialize) gives it.
LangNames == <<"English", "Spanish", "French", "Italian", "Portuguese", "German">>
LangVariants == DOMAIN LangNames
English == CHOOSE l \in LangVariants : LangNames[l] = "English"

to_string(l) == LangNames[l]

\* Option: None, or Some(x).
None == <<>>
Some(x) == <<x>>

from_str_internal(s) ==
    IF \E l \in LangVariants : LangNames[l] = s
    THEN Some(CHOOSE l \in LangVariants : LangNames[l] = s)
    ELSE None

\* impl From<String> for Langs: an unknown name is logged and becomes English.
LangsFrom(s) == IF from_str_internal(s) # None THEN from_str_internal(s)[1] ELSE English

\* impl FromStr for Langs: an unknown name is an error.
from_str(s) ==
    IF from_str_internal(s) # None
    THEN [ok |-> TRUE, value |-> from_str_internal(s)[1]]
    ELSE [ok |-> FALSE, value |-> <<"Unknown language: ", s>>]

\* ----------------------------------------------------------- token registry
Tokens == {"t1", "t2"}

\* The strings a stored language set may hold: the table outlives the server
\* and is written by whoever has access to it.
StoredNames == {"English", "Spanish", "Klingon"}

\* The most strings a stored set holds.
MaxStored == 2

\* AttributeValue::Ss: distinct strings, in the order the table returns them.
StringSets ==
    {ss \in UNION {[1..n -> StoredNames] : n \in 1..MaxStored} :
        \A i, j \in DOMAIN ss : i # j => ss[i] # ss[j]}

\* An item of the table: absent, or present with a Langs attribute or without
\* one (Langs = <<>>; a string set is never empty).
NoItem == [exists |-> FALSE, Langs |-> <<>>]
Items == {NoItem} \cup {[exists |-> TRUE, Langs |-> ss] : ss \in StringSets \cup {<<>>}}

langs_to_set(langs) == [i \in DOMAIN langs |-> to_string(langs[i])]

set_to_langs(attr) == [i \in DOMAIN attr |-> LangsFrom(attr[i])]

\* The JSON of a Vec<Langs>: an array of the variants' names.
LangsJson(langs) == [i \in DOMAIN langs |-> LangNames[langs[i]]]

\* UpdateItem with "DELETE Langs :lang": the names are taken out of the set,
\* an emptied set is removed from the item, and an item that does not exist
\* is created with its key alone.
UpdateDelete(item, names) ==
    [exists |-> TRUE,
     Langs |-> SelectSeq(item.Langs, LAMBDA x : \A i \in DOMAIN names : names[i] # x)]

InitStore ==
    /\ repo = [r \in RepoNames |-> <<>>]
    /\ poisoned = [r \in RepoNames |-> FALSE]
    /\ holders = [r \in RepoNames |-> {}]
    /\ pc = [p \in Procs |-> "idle"]
    /\ req = [p \in Procs |-> NoReq]
    /\ next_uuid = 1
    /\ now = 0
    /\ resp = NoResp
    /\ deleted = {}

\* main: Arc::new(Mutex::new(HashMap::new()))
EmptyMap == [t \in {} |-> {}]

InitTokens == tokens = EmptyMap /\ tokens_lock = {}

\* The server starts with empty repositories; here the table is empty too.
Init == InitStore /\ InitTokens /\ table = [t \in Tokens |-> NoItem]

\* The server starts against a table that already holds items.
InitClients == InitStore /\ InitTokens /\ table \in [Tokens -> Items]

\* The requests a handler may receive.
AddReqs == {[op |-> "add", lang |-> l, id |-> 0, content |-> c, max_age |-> 0] : l \in Langs, c \in Contents}
GetReqs == {[op |-> "get", lang |-> l, id |-> 0, content |-> "", max_age |-> 0] : l \in Langs}
EditReqs == {[op |-> "edit", lang |-> l, id |-> i, content |-> c, max_age |-> 0] : l \in Langs, i \in Ids, c \in Contents}
DeleteReqs == {[op |-> "delete", lang |-> l, id |-> i, content |-> "", max_age |-> 0] : l \in Langs, i \in Ids}
Requests == AddReqs \cup GetReqs \cup EditReqs \cup DeleteReqs

\* What an operation on repository r ended with.
Response(op, r, status, body) == [op |-> op, repo |-> r, status |-> status, body |-> body]

\* ----------------------------------------------------------------- handlers
\* The first statement of every handler: $repo.lock().map_err(..)?
\* On a poisoned mutex lock() returns Err; map_err drops the guard inside it
\* and the request ends with an internal server error.
HandlerLock(p, rq) ==
    /\ pc[p] = "idle"
    /\ rq.op = "add" => next_uuid <= MaxId
    /\ CanLock(RepoOf(rq.lang))
    /\ IF poisoned[RepoOf(rq.lang)]
       THEN /\ resp' = Response(rq.op, RepoOf(rq.lang), "500", <<>>)
            /\ UNCHANGED <<holders, pc, req>>
       ELSE /\ holders' = Acquire(p, RepoOf(rq.lang))
            /\ pc' = [pc EXCEPT ![p] = "cs"]
            /\ req' = [req EXCEPT ![p] = rq]
            /\ resp' = NoResp
    /\ UNCHANGED <<repo, poisoned, next_uuid, now, deleted>>
    /\ UNCHANGED clientVars

\* The end of a handler that returns: the guard is dropped with the scope.
HandlerReturn(p, status, body) ==
    /\ holders' = Release(p, RepoOf(req[p].lang))
    /\ pc' = [pc EXCEPT ![p] = "idle"]
    /\ req' = [req EXCEPT ![p] = NoReq]
    /\ resp' = Response(req[p].op, RepoOf(req[p].lang), status, body)

\* A handler that panics while it holds the guard: unwinding drops the guard,
\* which marks the mutex poisoned and unlocks it; the request gets no response.
HandlerPanic(p) ==
    /\ holders' = Release(p, RepoOf(req[p].lang))
    /\ poisoned' = [poisoned EXCEPT ![RepoOf(req[p].lang)] = TRUE]
    /\ pc' = [pc EXCEPT ![p] = "idle"]
    /\ req' = [req EXCEPT ![p] = NoReq]
    /\ resp' = Response(req[p].op, RepoOf(req[p].lang), "panic", <<>>)

\* Mutant of AddBody: the new message replaces the vector instead of being pushed.
AddBodyReplaces(p) ==
    /\ pc[p] = "cs" /\ req[p].op = "add"
    /\ repo' = [repo EXCEPT ![RepoOf(req[p].lang)] = <<Message(NewUuid, now, req[p].content)>>]
    /\ next_uuid' = next_uuid + 1
    /\ HandlerReturn(p, "200", <<>>)
    /\ UNCHANGED <<poisoned, now, deleted>>
    /\ UNCHANGED clientVars

\* Mutant of AddBody: the new message is put in front of the others.
AddBodyPrepends(p) ==
    /\ pc[p] = "cs" /\ req[p].op = "add"
    /\ repo' = [repo EXCEPT ![RepoOf(req[p].lang)] =
                    <<Message(NewUuid, now, req[p].content)>> \o @]
    /\ next_uuid' = next_uuid + 1
    /\ HandlerReturn(p, "200", <<>>)
    /\ UNCHANGED <<poisoned, now, deleted>>
    /\ UNCHANGED clientVars

\* create_add_message_endpoint, after the lock.
AddBody(p) ==
    /\ pc[p] = "cs" /\ req[p].op = "add"
    /\ repo' = [repo EXCEPT ![RepoOf(req[p].lang)] =
                    Append(@, Message(NewUuid, now, req[p].content))]
    /\ next_uuid' = next_uuid + 1
    /\ HandlerReturn(p, "200", <<>>)
    /\ UNCHANGED <<poisoned, now, deleted>>
    /\ UNCHANGED clientVars

\* Mutant of GetBody: the list is returned newest first.
GetBodyReversed(p) ==
    /\ pc[p] = "cs" /\ req[p].op = "get"
    /\ LET s == repo[RepoOf(req[p].lang)]
       IN HandlerReturn(p, "200", ToJson([i \in 1..Len(s) |-> s[Len(s) + 1 - i]]))
    /\ UNCHANGED <<repo, poisoned, next_uuid, now, deleted>>
    /\ UNCHANGED clientVars

\* create_get_messages_endpoint, after the lock: the tail expression
\* HttpResponse::Ok().json($repo.clone()) clones the vector and serializes the
\* clone while the guard $repo is alive; the guard is dropped on return.
GetBody(p) ==
    /\ pc[p] = "cs" /\ req[p].op = "get"
    /\ HandlerReturn(p, "200", ToJson(repo[RepoOf(req[p].lang)]))
    /\ UNCHANGED <<repo, poisoned, next_uuid, now, deleted>>
    /\ UNCHANGED clientVars

\* Mutant of EditBody: the edit also stamps the message with the current time.
EditBodyStampsCreated(p) ==
    /\ pc[p] = "cs" /\ req[p].op = "edit"
    /\ LET r == RepoOf(req[p].lang)
           index == Position(repo[r], req[p].id)
       IN IF index = 0
          THEN /\ HandlerPanic(p)
               /\ UNCHANGED <<repo, next_uuid, now, deleted>>
          ELSE /\ repo' = [repo EXCEPT ![r][index] = Message(@.id, now, req[p].content)]
               /\ HandlerReturn(p, "200", <<>>)
               /\ UNCHANGED <<poisoned, next_uuid, now, deleted>>
    /\ UNCHANGED clientVars

\* create_edit_message_endpoint, after the lock: position(..).unwrap().
EditBody(p) ==
    /\ pc[p] = "cs" /\ req[p].op = "edit"
    /\ LET r == RepoOf(req[p].lang)
           index == Position(repo[r], req[p].id)
       IN IF index = 0
          THEN /\ HandlerPanic(p)
               /\ UNCHANGED <<repo, next_uuid, now, deleted>>
          ELSE /\ repo' = [repo EXCEPT ![r][index].content = req[p].content]
               /\ HandlerReturn(p, "200", <<>>)
               /\ UNCHANGED <<poisoned, next_uuid, now, deleted>>
    /\ UNCHANGED clientVars

\* Mutant of DeleteBody: position(..).unwrap(), which panics on an absent id.
DeleteBodyUnwraps(p) ==
    /\ pc[p] = "cs" /\ req[p].op = "delete"
    /\ LET r == RepoOf(req[p].lang)
           index == Position(repo[r], req[p].id)
       IN IF index # 0
          THEN /\ repo' = [repo EXCEPT ![r] = Remove(@, index)]
               /\ deleted' = deleted \cup {req[p].id}
               /\ HandlerReturn(p, "200", <<>>)
               /\ UNCHANGED poisoned
          ELSE /\ HandlerPanic(p)
               /\ UNCHANGED <<repo, deleted>>
    /\ UNCHANGED <<next_uuid, now>>
    /\ UNCHANGED clientVars

\* create_delete_message_endpoint, after the lock.
DeleteBody(p) ==
    /\ pc[p] = "cs" /\ req[p].op = "delete"
    /\ LET r == RepoOf(req[p].lang)
           index == Position(repo[r], req[p].id)
       IN IF index # 0
          THEN /\ repo' = [repo EXCEPT ![r] = Remove(@, index)]
               /\ deleted' = deleted \cup {req[p].id}
               /\ HandlerReturn(p, "200", <<>>)
          ELSE /\ UNCHANGED <<repo, deleted>>
               /\ HandlerReturn(p, "404", <<>>)
    /\ UNCHANGED <<poisoned, next_uuid, now>>
    /\ UNCHANGED clientVars

\* ------------------------------------------------------------------- sweep
\* remove_old_messages(repo, max_age): repo.lock().unwrap(). On a poisoned
\* mutex the unwrap panics: the guard inside the error is dropped, the mutex
\* stays poisoned and the panic unwinds into the caller.
SweepLock(r, max_age) ==
    /\ pc[Reaper] = "idle"
    /\ CanLock(r)
    /\ IF poisoned[r]
       THEN /\ pc' = [pc EXCEPT ![Reaper] = "panicked"]
            /\ resp' = Response("sweep", r, "panic", <<>>)
            /\ UNCHANGED <<holders, req>>
       ELSE /\ holders' = Acquire(Reaper, r)
            /\ pc' = [pc EXCEPT ![Reaper] = "cs"]
            /\ req' = [req EXCEPT ![Reaper] =
                          [op |-> "sweep", lang |-> r, id |-> 0, content |-> "", max_age |-> max_age]]
            /\ resp' = NoResp
    /\ UNCHANGED <<repo, poisoned, next_uuid, now, deleted>>
    /\ UNCHANGED clientVars

\* The task that drives the sweeps: a loop that waits for a tick and calls
\* remove_old_messages, which returns no error value; the only way the call
\* fails is a panic, and a panic unwinds through the loop and ends the task.
ReaperAlive == pc[Reaper] # "panicked"

\* remove_old_messages, after the lock: now = Utc::now(); repo.retain(..).
SweepBody ==
    /\ pc[Reaper] = "cs"
    /\ repo' = [repo EXCEPT ![req[Reaper].lang] = Retain(@, now, req[Reaper].max_age)]
    /\ holders' = Release(Reaper, req[Reaper].lang)
    /\ pc' = [pc EXCEPT ![Reaper] = "idle"]
    /\ req' = [req EXCEPT ![Reaper] = NoReq]
    /\ resp' = Response("sweep", req[Reaper].lang, "ok", <<>>)
    /\ UNCHANGED <<poisoned, next_uuid, now, deleted>>
    /\ UNCHANGED clientVars

\* ------------------------------------------------------------------ backup
\* perform_backup: self.messages.lock().unwrap() inside the snapshot scope.
\* A panic here ends the task start_backup_task spawned.
BackupLock ==
    /\ pc[Backup] = "idle"
    /\ CanLock(BackupRepo)
    /\ IF poisoned[BackupRepo]
       THEN /\ pc' = [pc EXCEPT ![Backup] = "panicked"]
            /\ resp' = Response("backup", BackupRepo, "panic", <<>>)
            /\ UNCHANGED holders
       ELSE /\ holders' = Acquire(Backup, BackupRepo)
            /\ pc' = [pc EXCEPT ![Backup] = "cs"]
            /\ resp' = NoResp
    /\ UNCHANGED <<repo, poisoned, req, next_uuid, now, deleted>>
    /\ UNCHANGED clientVars

\* Mutant of BackupSnapshot: the snapshot leaves out the newest message.
BackupSnapshotDropsLast ==
    /\ pc[Backup] = "cs"
    /\ holders' = Release(Backup, BackupRepo)
    /\ pc' = [pc EXCEPT ![Backup] = "upload"]
    /\ resp' = Response("snapshot", BackupRepo, "ok",
                        ToJson(SubSeq(repo[BackupRepo], 1, Len(repo[BackupRepo]) - 1)))
    /\ UNCHANGED <<repo, poisoned, req, next_uuid, now, deleted>>
    /\ UNCHANGED clientVars

\* Mutant of BackupSnapshot: the guard outlives the snapshot scope and is
\* still out while the backup is compressed and uploaded.
BackupSnapshotKeepsGuard ==
    /\ pc[Backup] = "cs"
    /\ pc' = [pc EXCEPT ![Backup] = "upload"]
    /\ resp' = Response("snapshot", BackupRepo, "ok", ToJson(repo[BackupRepo]))
    /\ UNCHANGED <<repo, poisoned, holders, req, next_uuid, now, deleted>>
    /\ UNCHANGED clientVars

\* The rest of the snapshot scope: serde_json::to_string(&*messages), then the
\* guard is dropped at the closing brace.
BackupSnapshot ==
    /\ pc[Backup] = "cs"
    /\ holders' = Release(Backup, BackupRepo)
    /\ pc' = [pc EXCEPT ![Backup] = "upload"]
    /\ resp' = Response("snapshot", BackupRepo, "ok", ToJson(repo[BackupRepo]))
    /\ UNCHANGED <<repo, poisoned, req, next_uuid, now, deleted>>
    /\ UNCHANGED clientVars

\* Compression, put_object and cleanup_old_backups: each may fail, and the
\* loop of start_backup_task logs the outcome and waits for the next tick.
BackupFinish(ok) ==
    /\ pc[Backup] = "upload"
    /\ pc' = [pc EXCEPT ![Backup] = "idle"]
    /\ resp' = Response("backup", BackupRepo, IF ok THEN "ok" ELSE "err", <<>>)
    /\ UNCHANGED <<repo, poisoned, holders, req, next_uuid, now, deleted>>
    /\ UNCHANGED clientVars

\* ------------------------------------------------------------------- clock
Tick ==
    /\ now < MaxTime
    /\ now' = now + 1
    /\ resp' = NoResp
    /\ UNCHANGED <<repo, poisoned, holders, pc, req, next_uuid, deleted>>
    /\ UNCHANGED clientVars

Next ==
    \/ \E p \in Handlers, rq \in Requests : HandlerLock(p, rq)
    \/ \E p \in Handlers : AddBody(p)
    \/ \E p \in Handlers : GetBody(p)
    \/ \E p \in Handlers : EditBody(p)
    \/ \E p \in Handlers : DeleteBody(p)
    \/ \E r \in SweptRepos, max_age \in MaxAges : SweepLock(r, max_age)
    \/ SweepBody
    \/ BackupLock
    \/ BackupSnapshot
    \/ \E ok \in BOOLEAN : BackupFinish(ok)
    \/ Tick

Spec == Init /\ [][Next]_vars

\* N handlers that only add: the runs of Spec in which every request is an add.
NextAdds ==
    \/ \E p \in Handlers, rq \in AddReqs : HandlerLock(p, rq)
    \/ \E p \in Handlers : AddBody(p)
    \/ Tick

SpecAdds == Init /\ [][NextAdds]_vars

\* -------------------------------------------------------------------- auth
\* The x-api-key header of a request: absent, a value of visible ASCII text,
\* or a value with other bytes in it (HeaderValue::to_str fails on those).
NoHeader == [kind |-> "none", value |-> ""]
HeaderTexts == {"", "k", "x"}
Headers ==
    {NoHeader} \cup {[kind |-> "text", value |-> v] : v \in HeaderTexts}
               \cup {[kind |-> "bytes", value |-> "<ff>"]}

\* The environment variable ADMIN_API_KEY: unset, or set to a string.
AdminKeys == {"", "k"}
EnvVars == {[set |-> FALSE, value |-> ""]} \cup {[set |-> TRUE, value |-> k] : k \in AdminKeys}

\* api_key.to_str().unwrap_or("")
ToStrOrEmpty(h) == IF h.kind = "text" THEN h.value ELSE ""

\* if let Some(api_key) = api_key { .. api_key.to_str().unwrap_or("") == expected_api_key
KeyMatches(h, env) == h.kind # "none" /\ ToStrOrEmpty(h) = env.value

\* The routes configure_secure_message_routes mounts.
SecureReqs == AddReqs \cup EditReqs \cup DeleteReqs

\* ApiKeyMiddlewareService::call: the header is cloned and self.service.call(req)
\* builds the wrapped service's future, which runs nothing until it is polled.
ApiKeyCall(p, h, env, rq) ==
    /\ pc[p] = "idle"
    /\ rq.op = "add" => next_uuid <= MaxId
    /\ pc' = [pc EXCEPT ![p] = "auth"]
    /\ req' = [req EXCEPT ![p] = rq @@ [header |-> h, env |-> env]]
    /\ resp' = NoResp
    /\ UNCHANGED <<repo, poisoned, holders, next_uuid, now, deleted>>
    /\ UNCHANGED clientVars

\* The async block of call. With a header, env::var(..).expect(..) panics when
\* the variable is unset; on a match fut.await runs the handler, whose first
\* statement takes the lock (as in HandlerLock); otherwise the future is
\* dropped unpolled and the request ends with ErrorUnauthorized.
ApiKeyPoll(p) ==
    /\ pc[p] = "auth"
    /\ LET h == req[p].header
           env == req[p].env
           r == RepoOf(req[p].lang)
       IN IF h.kind # "none" /\ ~env.set
          THEN /\ pc' = [pc EXCEPT ![p] = "idle"]
               /\ req' = [req EXCEPT ![p] = NoReq]
               /\ resp' = Response(req[p].op, r, "panic", <<>>)
               /\ UNCHANGED holders
          ELSE IF KeyMatches(h, env)
          THEN /\ CanLock(r)
               /\ IF poisoned[r]
                  THEN /\ pc' = [pc EXCEPT ![p] = "idle"]
                       /\ req' = [req EXCEPT ![p] = NoReq]
                       /\ resp' = Response(req[p].op, r, "500", <<>>)
                       /\ UNCHANGED holders
                  ELSE /\ holders' = Acquire(p, r)
                       /\ pc' = [pc EXCEPT ![p] = "cs"]
                       /\ resp' = NoResp
                       /\ UNCHANGED req
          ELSE /\ pc' = [pc EXCEPT ![p] = "idle"]
               /\ req' = [req EXCEPT ![p] = NoReq]
               /\ resp' = Response(req[p].op, r, "401", <<>>)
               /\ UNCHANGED holders
    /\ UNCHANGED <<repo, poisoned, next_uuid, now, deleted>>
    /\ UNCHANGED clientVars

\* One worker serving the secure routes behind the middleware.
NextAuth ==
    \/ \E h \in Headers, env \in EnvVars, rq \in SecureReqs : ApiKeyCall("h1", h, env, rq)
    \/ ApiKeyPoll("h1")
    \/ AddBody("h1")
    \/ EditBody("h1")
    \/ DeleteBody("h1")

SpecAuth == Init /\ [][NextAuth]_vars

\* ----------------------------------------------------------------- clients
\* get_langs: one get_item, then the stored set is read with set_to_langs.
\* sent = FALSE is a request the table did not answer.
GetLangs(p, t, sent) ==
    /\ pc[p] = "idle"
    /\ resp' = IF ~sent THEN Response("get_langs", t, "500", <<>>)
               ELSE IF ~table[t].exists THEN Response("get_langs", t, "404", <<>>)
               ELSE IF table[t].Langs = <<>> THEN Response("get_langs", t, "200", <<>>)
               ELSE Response("get_langs", t, "200", LangsJson(set_to_langs(table[t].Langs)))
    /\ UNCHANGED <<repo, poisoned, holders, pc, req, next_uuid, now, deleted, table>>
    /\ UNCHANGED memVars

\* remove_langs, first request: get_item for the token.
RemoveLangsGet(p, t, lang, sent) ==
    /\ pc[p] = "idle"
    /\ IF sent
       THEN /\ pc' = [pc EXCEPT ![p] = "remove_langs"]
            /\ req' = [req EXCEPT ![p] =
                          [op |-> "remove_langs", token |-> t, lang |-> lang, item |-> table[t]]]
            /\ resp' = NoResp
       ELSE /\ resp' = Response("remove_langs", t, "500", <<>>)
            /\ UNCHANGED <<pc, req>>
    /\ UNCHANGED <<repo, poisoned, holders, next_uuid, now, deleted, table>>
    /\ UNCHANGED memVars

\* remove_langs, after the answer: NotFound unless set_to_langs of the stored
\* set contains the language; then update_item "DELETE Langs :lang".
RemoveLangsUpdate(p, sent) ==
    /\ pc[p] = "remove_langs"
    /\ LET t == req[p].token
           item == req[p].item
           has == /\ item.exists
                  /\ \E i \in DOMAIN item.Langs : set_to_langs(item.Langs)[i] = req[p].lang
       IN IF ~has
          THEN /\ resp' = Response("remove_langs", t, "404", <<>>)
               /\ UNCHANGED table
          ELSE IF sent
          THEN /\ table' = [table EXCEPT ![t] = UpdateDelete(@, langs_to_set(<<req[p].lang>>))]
               /\ resp' = Response("remove_langs", t, "200", <<>>)
          ELSE /\ resp' = Response("remove_langs", t, "500", <<>>)
               /\ UNCHANGED table
    /\ pc' = [pc EXCEPT ![p] = "idle"]
    /\ req' = [req EXCEPT ![p] = NoReq]
    /\ UNCHANGED <<repo, poisoned, holders, next_uuid, now, deleted>>
    /\ UNCHANGED memVars

\* One worker serving the registry routes that read the stored sets.
NextClients ==
    \/ \E t \in Tokens, sent \in BOOLEAN : GetLangs("h1", t, sent)
    \/ \E t \in Tokens, lang \in LangVariants, sent \in BOOLEAN : RemoveLangsGet("h1", t, lang, sent)
    \/ \E sent \in BOOLEAN : RemoveLangsUpdate("h1", sent)

SpecClients == InitClients /\ [][NextClients]_vars

\* put_item with the item {Token}: the item is written whole, with its key
\* and nothing else, over whatever was stored under the key.
PutItem == [exists |-> TRUE, Langs |-> <<>>]

\* UpdateItem with "ADD Langs :lang": the names not yet in the set are added;
\* an item that does not exist is created with its key and the set.
UpdateAdd(item, names) ==
    [exists |-> TRUE,
     Langs |-> item.Langs \o SelectSeq(names, LAMBDA x : \A i \in DOMAIN item.Langs : item.Langs[i] # x)]

\* register_token: one put_item.
RegisterToken(p, t, sent) ==
    /\ pc[p] = "idle"
    /\ IF sent
       THEN /\ table' = [table EXCEPT ![t] = PutItem]
            /\ resp' = Response("register_token", t, "201", <<>>)
       ELSE /\ resp' = Response("register_token", t, "500", <<>>)
            /\ UNCHANGED table
    /\ UNCHANGED <<repo, poisoned, holders, pc, req, next_uuid, now, deleted>>
    /\ UNCHANGED memVars

\* add_langs, first request: get_item for the token; the handler goes on
\* knowing only whether an item came back.
AddLangsGet(p, t, lang, sent) ==
    /\ pc[p] = "idle"
    /\ IF sent
       THEN /\ pc' = [pc EXCEPT ![p] = "add_langs"]
            /\ req' = [req EXCEPT ![p] =
                          [op |-> "add_langs", token |-> t, lang |-> lang,
                           item |-> [exists |-> table[t].exists, Langs |-> <<>>]]]
            /\ resp' = NoResp
       ELSE /\ resp' = Response("add_langs", t, "500", <<>>)
            /\ UNCHANGED <<pc, req>>
    /\ UNCHANGED <<repo, poisoned, holders, next_uuid, now, deleted, table>>
    /\ UNCHANGED memVars

\* add_langs, after the answer: NotFound if no item came back; otherwise
\* update_item "ADD Langs :lang", with no condition on the item.
AddLangsUpdate(p, sent) ==
    /\ pc[p] = "add_langs"
    /\ LET t == req[p].token
       IN IF ~req[p].item.exists
          THEN /\ resp' = Response("add_langs", t, "404", <<>>)
               /\ UNCHANGED table
          ELSE IF sent
          THEN /\ table' = [table EXCEPT ![t] = UpdateAdd(@, langs_to_set(<<req[p].lang>>))]
               /\ resp' = Response("add_langs", t, "200", <<>>)
          ELSE /\ resp' = Response("add_langs", t, "500", <<>>)
               /\ UNCHANGED table
    /\ pc' = [pc EXCEPT ![p] = "idle"]
    /\ req' = [req EXCEPT ![p] = NoReq]
    /\ UNCHANGED <<repo, poisoned, holders, next_uuid, now, deleted>>
    /\ UNCHANGED memVars

\* unregister_token, first request: get_item for the token.
UnregisterGet(p, t, sent) ==
    /\ pc[p] = "idle"
    /\ IF sent
       THEN /\ pc' = [pc EXCEPT ![p] = "unregister_token"]
            /\ req' = [req EXCEPT ![p] =
                          [op |-> "unregister_token", token |-> t, lang |-> English,
                           item |-> [exists |-> table[t].exists, Langs |-> <<>>]]]
            /\ resp' = NoResp
       ELSE /\ resp' = Response("unregister_token", t, "500", <<>>)
            /\ UNCHANGED <<pc, req>>
    /\ UNCHANGED <<repo, poisoned, holders, next_uuid, now, deleted, table>>
    /\ UNCHANGED memVars

\* unregister_token, after the answer: NotFound if no item came back;
\* otherwise delete_item.
UnregisterDelete(p, sent) ==
    /\ pc[p] = "unregister_token"
    /\ LET t == req[p].token
       IN IF ~req[p].item.exists
          THEN /\ resp' = Response("unregister_token", t, "404", <<>>)
               /\ UNCHANGED table
          ELSE IF sent
          THEN /\ table' = [table EXCEPT ![t] = NoItem]
               /\ resp' = Response("unregister_token", t, "200", <<>>)
          ELSE /\ resp' = Response("unregister_token", t, "500", <<>>)
               /\ UNCHANGED table
    /\ pc' = [pc EXCEPT ![p] = "idle"]
    /\ req' = [req EXCEPT ![p] = NoReq]
    /\ UNCHANGED <<repo, poisoned, holders, next_uuid, now, deleted>>
    /\ UNCHANGED memVars

\* The most variants of Langs the requests to a registry name.
MaxLangs == 2

\* The token and the languages the requests to the registry name.
RegistryTokens == {"t1"}
RegistryLangs == {l \in LangVariants : l <= MaxLangs}

\* Two workers serving the registry routes against an empty table; each await
\* of a handler is a point where the other worker may run.
NextRegistry ==
    \/ \E p \in Handlers, t \in RegistryTokens, sent \in BOOLEAN : RegisterToken(p, t, sent)
    \/ \E p \in Handlers, t \in RegistryTokens, lang \in RegistryLangs, sent \in BOOLEAN :
           AddLangsGet(p, t, lang, sent)
    \/ \E p \in Handlers, sent \in BOOLEAN : AddLangsUpdate(p, sent)
    \/ \E p \in Handlers, t \in RegistryTokens, lang \in RegistryLangs, sent \in BOOLEAN :
           RemoveLangsGet(p, t, lang, sent)
    \/ \E p \in Handlers, sent \in BOOLEAN : RemoveLangsUpdate(p, sent)
    \/ \E p \in Handlers, t \in RegistryTokens, sent \in BOOLEAN : UnregisterGet(p, t, sent)
    \/ \E p \in Handlers, sent \in BOOLEAN : UnregisterDelete(p, sent)

SpecRegistry == Init /\ [][NextRegistry]_vars

\* ------------------------------------------------------ in-memory registry
MemLangs == {l \in LangVariants : l <= MaxLangs}

MemReq(op, t, lang) == [op |-> op, token |-> t, lang |-> lang]
MemReqs ==
    {MemReq(op, t, 0) : op \in {"register_token", "get_langs", "unregister_token"}, t \in Tokens}
        \cup {MemReq("get_all_tokens", "", 0)}
        \cup {MemReq(op, t, l) : op \in {"add_langs", "remove_langs"}, t \in Tokens, l \in MemLangs}

\* The orders in which a HashSet can be iterated.
Orders(S) == {o \in [1..Cardinality(S) -> S] : \A i, j \in DOMAIN o : i # j => o[i] # o[j]}

\* HashMap::entry(t).or_insert_with(HashSet::new)
OrInsert(m, t) == IF t \in DOMAIN m THEN m ELSE [x \in DOMAIN m \cup {t} |-> IF x = t THEN {} ELSE m[x]]

\* HashMap::remove(t)
MapRemove(m, t) == [x \in DOMAIN m \ {t} |-> m[x]]

\* The first statement of every registry handler: tokens.lock(). No handler
\* panics under this guard, so the mutex is never poisoned and neither the
\* map_err of five handlers nor the unwrap of unregister_token fires.
MemLock(p, rq) ==
    /\ pc[p] = "idle"
    /\ tokens_lock = {}
    /\ tokens_lock' = {p}
    /\ pc' = [pc EXCEPT ![p] = "tokens"]
    /\ req' = [req EXCEPT ![p] = rq]
    /\ resp' = NoResp
    /\ UNCHANGED <<repo, poisoned, holders, next_uuid, now, deleted, table, tokens>>

\* The end of a registry handler: the guard is dropped with the scope.
MemReturn(p, status, body) ==
    /\ tokens_lock' = tokens_lock \ {p}
    /\ pc' = [pc EXCEPT ![p] = "idle"]
    /\ req' = [req EXCEPT ![p] = NoReq]
    /\ resp' = Response(req[p].op, req[p].token, status, body)
    /\ UNCHANGED <<repo, poisoned, holders, next_uuid, now, deleted, table>>

\* Mutant of MemRegisterToken: insert, which replaces the set of a token that
\* is already registered.
MemRegisterTokenInserts(p) ==
    /\ pc[p] = "tokens" /\ req[p].op = "register_token"
    /\ tokens' = [x \in DOMAIN tokens \cup {req[p].token} |->
                     IF x = req[p].token THEN {} ELSE tokens[x]]
    /\ MemReturn(p, "201", <<>>)

\* register_token
MemRegisterToken(p) ==
    /\ pc[p] = "tokens" /\ req[p].op = "register_token"
    /\ tokens' = OrInsert(tokens, req[p].token)
    /\ MemReturn(p, "201", <<>>)

\* Mutant of MemGetLangs: a token that is not registered is answered with an
\* empty list.
MemGetLangsOkWhenAbsent(p) ==
    /\ pc[p] = "tokens" /\ req[p].op = "get_langs"
    /\ IF req[p].token \in DOMAIN tokens
       THEN \E o \in Orders(tokens[req[p].token]) : MemReturn(p, "200", LangsJson(o))
       ELSE MemReturn(p, "200", <<>>)
    /\ UNCHANGED tokens

\* get_langs: the set is serialized in its iteration order.
MemGetLangs(p) ==
    /\ pc[p] = "tokens" /\ req[p].op = "get_langs"
    /\ IF req[p].token \in DOMAIN tokens
       THEN \E o \in Orders(tokens[req[p].token]) : MemReturn(p, "200", LangsJson(o))
       ELSE MemReturn(p, "404", <<>>)
    /\ UNCHANGED tokens

\* get_all_tokens: the clone of the map, each set in its iteration order.
MemGetAllTokens(p) ==
    /\ pc[p] = "tokens" /\ req[p].op = "get_all_tokens"
    /\ \E f \in [DOMAIN tokens -> UNION {Orders(tokens[t]) : t \in DOMAIN tokens}] :
           /\ \A t \in DOMAIN tokens : f[t] \in Orders(tokens[t])
           /\ MemReturn(p, "200", [t \in DOMAIN tokens |-> LangsJson(f[t])])
    /\ UNCHANGED tokens

\* Mutant of MemAddLangs: without the contains_key test the entry is created.
MemAddLangsUpserts(p) ==
    /\ pc[p] = "tokens" /\ req[p].op = "add_langs"
    /\ tokens' = [OrInsert(tokens, req[p].token) EXCEPT ![req[p].token] = @ \cup {req[p].lang}]
    /\ MemReturn(p, "200", <<>>)

\* add_langs
MemAddLangs(p) ==
    /\ pc[p] = "tokens" /\ req[p].op = "add_langs"
    /\ IF req[p].token \notin DOMAIN tokens
       THEN /\ MemReturn(p, "404", <<>>)
            /\ UNCHANGED tokens
       ELSE /\ tokens' = [OrInsert(tokens, req[p].token) EXCEPT ![req[p].token] = @ \cup {req[p].lang}]
            /\ MemReturn(p, "200", <<>>)

\* Mutant of MemRemoveLangs: the whole set is cleared.
MemRemoveLangsClears(p) ==
    /\ pc[p] = "tokens" /\ req[p].op = "remove_langs"
    /\ IF req[p].token \notin DOMAIN tokens
       THEN /\ MemReturn(p, "404", <<>>)
            /\ UNCHANGED tokens
       ELSE /\ tokens' = [tokens EXCEPT ![req[p].token] = {}]
            /\ MemReturn(p, "200", <<>>)

\* remove_langs
MemRemoveLangs(p) ==
    /\ pc[p] = "tokens" /\ req[p].op = "remove_langs"
    /\ IF req[p].token \notin DOMAIN tokens
       THEN /\ MemReturn(p, "404", <<>>)
            /\ UNCHANGED tokens
       ELSE /\ tokens' = [OrInsert(tokens, req[p].token) EXCEPT ![req[p].token] = @ \ {req[p].lang}]
            /\ MemReturn(p, "200", <<>>)

\* Mutant of MemUnregisterToken: the token keeps its entry, with an empty set.
MemUnregisterTokenClears(p) ==
    /\ pc[p] = "tokens" /\ req[p].op = "unregister_token"
    /\ tokens' = [x \in DOMAIN tokens |-> IF x = req[p].token THEN {} ELSE tokens[x]]
    /\ MemReturn(p, "200", <<>>)

\* unregister_token
MemUnregisterToken(p) ==
    /\ pc[p] = "tokens" /\ req[p].op = "unregister_token"
    /\ tokens' = MapRemove(tokens, req[p].token)
    /\ MemReturn(p, "200", <<>>)

\* The services main mounts.
NextTokens ==
    \/ \E p \in Handlers, rq \in MemReqs : MemLock(p, rq)
    \/ \E p \in Handlers : MemRegisterToken(p)
    \/ \E p \in Handlers : MemGetLangs(p)
    \/ \E p \in Handlers : MemGetAllTokens(p)
    \/ \E p \in Handlers : MemAddLangs(p)
    \/ \E p \in Handlers : MemRemoveLangs(p)
    \/ \E p \in Handlers : MemUnregisterToken(p)

SpecTokens == Init /\ [][NextTokens]_vars

\* ------------------------------------------------------------ expiry policy
\* The Expiration classes and the seconds each one stands for: an hour of
\* 60 * 60 seconds, a day of 24 hours, a week of 7 days, a quarter of 12
\* weeks, a year of 365 days.
Expirations == {"Hour", "Day", "Week", "Quarter", "Year"}

RECURSIVE expiration_seconds(_)
expiration_seconds(e) ==
    CASE e = "Hour" -> 60 * 60
      [] e = "Day" -> 24 * expiration_seconds("Hour")
      [] e = "Week" -> 7 * expiration_seconds("Day")
      [] e = "Quarter" -> 12 * expiration_seconds("Week")
      [] e = "Year" -> 365 * expiration_seconds("Day")

\* The instants around the end of each class's window, for a message created
\* at time 0.
ExpiryInstants ==
    UNION {{expiration_seconds(e) - 1, expiration_seconds(e), expiration_seconds(e) + 1} :
              e \in Expirations}

\* One message, created at time 0, and the clock at one of the instants.
InitExpiry ==
    /\ repo = [r \in RepoNames |-> IF r \in SweptRepos THEN <<Message(1, 0, "a")>> ELSE <<>>]
    /\ poisoned = [r \in RepoNames |-> FALSE]
    /\ holders = [r \in RepoNames |-> {}]
    /\ pc = [p \in Procs |-> "idle"]
    /\ req = [p \in Procs |-> NoReq]
    /\ next_uuid = 2
    /\ now \in ExpiryInstants
    /\ resp = NoResp
    /\ deleted = {}
    /\ InitTokens
    /\ table = [t \in Tokens |-> NoItem]

\* The reaper calls remove_old_messages with the seconds of a class.
NextExpiry ==
    \/ \E r \in SweptRepos, e \in Expirations : SweepLock(r, expiration_seconds(e))
    \/ SweepBody

SpecExpiry == InitExpiry /\ [][NextExpiry]_vars

\* The code between a lock and the drop of its guard has no await and no
\* blocking call: a thread that holds a guard keeps running to the end of its
\* critical section.
HolderRuns ==
    /\ \A p \in Handlers : WF_vars(AddBody(p) \/ GetBody(p) \/ EditBody(p) \/ DeleteBody(p))
    /\ WF_vars(SweepBody)
    /\ WF_vars(BackupSnapshot)

SpecRunning == Init /\ [][Next]_vars /\ HolderRuns

\* A fair reaper: remove_old_messages is called again and again, with every
\* max_age, on every repository it is given, and gets the lock infinitely
\* often when it is free infinitely often.
ReaperFair == \A r \in SweptRepos : \A max_age \in MaxAges : SF_vars(SweepLock(r, max_age))

SpecFairReaper == Init /\ [][Next]_vars /\ HolderRuns /\ ReaperFair

\* ================================================================== claims
\* The step in which handler p finishes the body of an op request.
HandlerEnds(p, op) == pc[p] = "cs" /\ req[p].op = op /\ pc'[p] = "idle"

\* The step in which remove_old_messages finishes its retain.
SweepEnds == pc[Reaper] = "cs" /\ pc'[Reaper] = "idle"

IdsOf(s) == {s[i].id : i \in 1..Len(s)}

HandlerOps == {"add", "get", "edit", "delete"}

\* The step in which registry handler p ends a request of kind op.
MemEnds(p, op) == pc[p] = "tokens" /\ req[p].op = op /\ pc'[p] = "idle"

C2_EditAbsentIsNotFound ==
    [][\A p \in Handlers :
          (HandlerEnds(p, "edit") /\ Position(repo[RepoOf(req[p].lang)], req[p].id) = 0)
              => /\ repo' = repo
                 /\ resp'.status = "404"
                 /\ poisoned' = poisoned]_vars

\* C3 (as claimed): a message added through one language's endpoint shows up
\* in that language's get and leaves what every other language's get returns
\* as it was.
C3_AddSeenOnlyByItsLanguage ==
    [][\A p \in Handlers :
          HandlerEnds(p, "add")
              => /\ Len(repo'[RepoOf(req[p].lang)]) = Len(repo[RepoOf(req[p].lang)]) + 1
                 /\ \A k \in Langs \ {req[p].lang} : repo'[RepoOf(k)] = repo[RepoOf(k)]]_vars

\* C4: a delete of a present id answers 200 and removes it; a delete of an
\* absent id, and so every repeated delete of an id already deleted, answers
\* 404, changes nothing and poisons nothing.
C4_DeleteTwice ==
    [][\A p \in Handlers :
          HandlerEnds(p, "delete")
              => LET r == RepoOf(req[p].lang)
                     id == req[p].id
                 IN /\ id \in IdsOf(repo[r])
                          => /\ resp'.status = "200"
                             /\ id \notin IdsOf(repo'[r])
                             /\ Len(repo'[r]) = Len(repo[r]) - 1
                    /\ id \notin IdsOf(repo[r])
                          => /\ resp'.status = "404"
                             /\ repo' = repo
                             /\ poisoned' = poisoned
                    /\ id \in deleted
                          => /\ resp'.status = "404"
                             /\ repo' = repo]_vars

\* Every id has been deleted once, and a further delete was just answered 404.
C4_Witness ==
    /\ deleted = Ids
    /\ resp.op = "delete" /\ resp.status = "404"

C6_ConcurrentAdds ==
    /\ UNION {IdsOf(repo[r]) : r \in RepoNames} = 1..(next_uuid - 1)
    /\ \A r \in RepoNames : Cardinality(IdsOf(repo[r])) = Len(repo[r])
    /\ \A r, q \in RepoNames : r # q => IdsOf(repo[r]) \cap IdsOf(repo[q]) = {}

\* All the adds of a run are done and every handler is back to idle.
C6_Witness ==
    /\ next_uuid = MaxId + 1
    /\ \A p \in Handlers : pc[p] = "idle"
    /\ resp.op = "add" /\ resp.status = "200"

\* C7 (as claimed): once a repository's lock is poisoned, an add, get, edit or
\* delete on it ends with a 500 and a sweep of it does not panic.
C7_PoisonedLockFailsOnlyTheRequest ==
    [][\A r \in RepoNames :
          (poisoned[r] /\ resp'.repo = r)
              => /\ resp'.op \in HandlerOps => resp'.status = "500"
                 /\ resp'.op = "sweep" => resp'.status # "panic"]_vars

C9_EditChangesOnlyContent ==
    [][\A p \in Handlers :
          (HandlerEnds(p, "edit") /\ req[p].id \in IdsOf(repo[RepoOf(req[p].lang)]))
              => LET r == RepoOf(req[p].lang)
                     old == repo[r]
                     new == repo'[r]
                 IN /\ resp'.status = "200"
                    /\ Len(new) = Len(old)
                    /\ \A i \in 1..Len(old) :
                          /\ new[i].id = old[i].id
                          /\ new[i].created = old[i].created
                          /\ new[i].content =
                                 IF old[i].id = req[p].id THEN req[p].content ELSE old[i].content
                    /\ \A q \in RepoNames \ {r} : repo'[q] = repo[q]
                    /\ poisoned' = poisoned]_vars

\* An edit has just succeeded, later than the creation of both messages of the
\* repository, which now differ in content.
C9_Witness ==
    /\ resp.op = "edit" /\ resp.status = "200"
    /\ Len(repo[resp.repo]) = 2
    /\ repo[resp.repo][1].content # repo[resp.repo][2].content
    /\ repo[resp.repo][1].created < now
    /\ repo[resp.repo][2].created < now

\* C10: at most one process holds a repository's lock, and only a process in
\* its critical section holds one: an operation that ended, with a response,
\* an error or a panic, holds none.
C10_MutualExclusion ==
    \A r \in RepoNames :
        /\ Cardinality(holders[r]) <= 1
        /\ \A p \in Procs : pc[p] # "cs" => p \notin holders[r]

\* An edit has just panicked, and no lock is held.
C10_Witness ==
    /\ resp.op = "edit" /\ resp.status = "panic"
    /\ \A r \in RepoNames : holders[r] = {}
    /\ \E r \in RepoNames : poisoned[r]

\* C11: the operations on one repository are serializable in the order of
\* their lock acquisitions: from the step that takes the lock to the step
\* that drops it, the holder is alone and nobody else changes the repository;
\* a repository changes only in the step that ends its holder's operation,
\* and every response that carries data is computed in such a step.
C11_Serializable ==
    [][\A r \in RepoNames :
          /\ \A p \in Procs : p \in holders[r] /\ p \in holders'[r] => repo'[r] = repo[r]
          /\ holders[r] = {} => repo'[r] = repo[r]
          /\ repo'[r] # repo[r]
                 => \E p \in Procs : holders[r] = {p} /\ pc[p] = "cs" /\ holders'[r] = {}
          /\ (resp'.repo = r /\ resp'.body # <<>>)
                 => \E p \in Procs : holders[r] = {p} /\ holders'[r] = {}]_vars

\* While the backup uploads a snapshot that held a message, a get has just
\* returned one message after a delete removed another: adds, a delete, a
\* backup snapshot and a get have run against the same repository.
C11_Witness ==
    /\ resp.op = "get" /\ resp.status = "200"
    /\ Len(resp.body) = 1
    /\ deleted # {}
    /\ pc[Backup] = "upload"

C13_ExpiredEventuallyRemoved ==
    \A r \in SweptRepos : \A i \in Ids : \A max_age \in MaxAges :
        (\E k \in 1..Len(repo[r]) : repo[r][k].id = i /\ now - repo[r][k].created > max_age)
            ~> (i \notin IdsOf(repo[r]))

C15_WrongKeyIsUnauthorized ==
    [][\A p \in Handlers :
          (/\ pc[p] = "auth" /\ pc'[p] # "auth"
           /\ req[p].env.set
           /\ (req[p].header.kind = "none" \/ req[p].header.value # req[p].env.value))
              => /\ resp'.status = "401"
                 /\ pc'[p] = "idle"
                 /\ holders' = holders
                 /\ repo' = repo]_vars

\* C16: when a sweep ends, a second sweep of the same repository with the same
\* max_age at the same time, nothing added in between, would remove nothing:
\* what retain keeps of the swept repository is the swept repository, none of
\* its messages being expired.
C16_SecondSweepRemovesNothing ==
    [][SweepEnds
          => LET first == repo'[req[Reaper].lang]
             IN /\ Retain(first, now', req[Reaper].max_age) = first
                /\ \A k \in 1..Len(first) : now' - first[k].created < req[Reaper].max_age]_vars

\* A sweep has just ended that removed both messages ever added, none of them
\* by a delete.
C16_Witness ==
    /\ resp.op = "sweep" /\ resp.status = "ok"
    /\ next_uuid = 3
    /\ deleted = {}
    /\ repo[resp.repo] = <<>>

\* C17: the list a get returns is taken while the handler, and nobody else,
\* holds the lock of the repository; it is the repository's contents of that
\* instant, message for message, and the response is a value of its own, so
\* the get leaves the repository as it was and gives the lock back.
C17_GetIsSnapshotUnderLock ==
    [][\A p \in Handlers :
          HandlerEnds(p, "get")
              => LET r == RepoOf(req[p].lang)
                 IN /\ holders[r] = {p}
                    /\ holders'[r] = {}
                    /\ Len(resp'.body) = Len(repo[r])
                    /\ \A k \in 1..Len(repo[r]) : FromJson(resp'.body)[k] = repo[r][k]
                    /\ repo'[r] = repo[r]]_vars

\* A get has just returned the one message a sweep left of the two added.
C17_Witness ==
    /\ resp.op = "get" /\ resp.status = "200"
    /\ Len(resp.body) = 1
    /\ next_uuid = 3
    /\ deleted = {}

\* C18: the messages of a repository are serialized to JSON only once its
\* lock has been given back: a step that serializes them, for a get or for a
\* backup snapshot, starts with the lock of that repository free.
C18_SerializesAfterUnlock ==
    [][(/\ resp'.op \in {"get", "snapshot"}
        /\ resp'.status \in {"200", "ok"}
        /\ resp'.body = ToJson(repo[resp'.repo]))
           => holders[resp'.repo] = {}]_vars

\* C19: the JSON perform_backup produces for the upload is made while the
\* backup task alone holds the lock, and it is the whole repository of that
\* instant: every message, each with its id, time and content, in order.
C19_BackupIsOneInstant ==
    [][(pc[Backup] = "cs" /\ pc'[Backup] = "upload")
          => /\ holders[BackupRepo] = {Backup}
             /\ resp'.op = "snapshot"
             /\ Len(resp'.body) = Len(repo[BackupRepo])
             /\ \A k \in 1..Len(repo[BackupRepo]) :
                    FromJson(resp'.body)[k] = repo[BackupRepo][k]
             /\ repo' = repo]_vars

\* The backup has just taken a snapshot of one message, after a delete
\* removed another.
C19_Witness ==
    /\ resp.op = "snapshot" /\ resp.status = "ok"
    /\ Len(resp.body) = 1
    /\ deleted # {}
    /\ pc[Backup] = "upload"

\* C20: no conversion turns a string that is not one of the six names into a
\* language: from_str answers such a string with an error, and every
\* language get_langs returns for a token is a name stored for that token.
C20_UnknownLanguageRejected ==
    /\ \A s \in StoredNames : from_str_internal(s) = None => ~from_str(s).ok
    /\ (resp.op = "get_langs" /\ resp.status = "200")
           => \A k \in DOMAIN resp.body :
                  \E j \in DOMAIN table[resp.repo].Langs :
                      table[resp.repo].Langs[j] = resp.body[k]

\* C21: an add answers 200 and appends one message to the end of the
\* repository it is handed: the length grows by 1, the last message carries
\* the request's content, every message that was there stays as it was at its
\* position, and no other repository changes.
C21_AddAppendsOne ==
    [][\A p \in Handlers :
          HandlerEnds(p, "add")
              => LET r == RepoOf(req[p].lang)
                     old == repo[r]
                     new == repo'[r]
                 IN /\ resp'.status = "200"
                    /\ Len(new) = Len(old) + 1
                    /\ new[Len(new)].content = req[p].content
                    /\ \A k \in 1..Len(old) : new[k] = old[k]
                    /\ \A q \in RepoNames \ {r} : repo'[q] = repo[q]]_vars

\* An add has just put a second message, with another content, behind the
\* first.
C21_Witness ==
    /\ resp.op = "add" /\ resp.status = "200"
    /\ Len(repo[resp.repo]) = 2
    /\ repo[resp.repo][1].content # repo[resp.repo][2].content

\* C22: register_token answers Created and leaves the token registered: with
\* the empty set if it was not registered, with the set it had if it was;
\* no other token is added, removed or changed.
C22_RegisterToken ==
    [][\A p \in Handlers :
          MemEnds(p, "register_token")
              => LET t == req[p].token
                 IN /\ resp'.status = "201"
                    /\ DOMAIN tokens' = DOMAIN tokens \cup {t}
                    /\ t \notin DOMAIN tokens => tokens'[t] = {}
                    /\ t \in DOMAIN tokens => tokens'[t] = tokens[t]
                    /\ \A x \in DOMAIN tokens \ {t} : tokens'[x] = tokens[x]]_vars

\* A token that has a language was registered once more, next to another
\* registered token.
C22_Witness ==
    /\ resp.op = "register_token" /\ resp.status = "201"
    /\ tokens[resp.repo] # {}
    /\ DOMAIN tokens = Tokens

\* C23: add_langs on a registered token answers OK and makes its set the old
\* set plus the language, nothing else changing; on a token that is not
\* registered it answers NotFound and the registry stays as it is.
C23_AddLangs ==
    [][\A p \in Handlers :
          MemEnds(p, "add_langs")
              => LET t == req[p].token
                 IN IF t \in DOMAIN tokens
                    THEN /\ resp'.status = "200"
                         /\ DOMAIN tokens' = DOMAIN tokens
                         /\ tokens'[t] = tokens[t] \cup {req[p].lang}
                         /\ req[p].lang \in tokens[t] => tokens' = tokens
                         /\ \A x \in DOMAIN tokens \ {t} : tokens'[x] = tokens[x]
                    ELSE /\ resp'.status = "404"
                         /\ tokens' = tokens]_vars

\* An add_langs has just given a token its second language.
C23_Witness ==
    /\ resp.op = "add_langs" /\ resp.status = "200"
    /\ Cardinality(tokens[resp.repo]) = 2

\* C24: remove_langs on a registered token answers OK; afterwards the token
\* is still registered, its set is the old one without the language, and
\* nothing else changed; on a token that is not registered it answers
\* NotFound and the registry stays as it is.
C24_RemoveLangs ==
    [][\A p \in Handlers :
          MemEnds(p, "remove_langs")
              => LET t == req[p].token
                 IN IF t \in DOMAIN tokens
                    THEN /\ resp'.status = "200"
                         /\ DOMAIN tokens' = DOMAIN tokens
                         /\ req[p].lang \notin tokens'[t]
                         /\ tokens'[t] = tokens[t] \ {req[p].lang}
                         /\ \A x \in DOMAIN tokens \ {t} : tokens'[x] = tokens[x]
                    ELSE /\ resp'.status = "404"
                         /\ tokens' = tokens]_vars

\* A remove_langs has just answered OK for a token that keeps a language.
C24_Witness ==
    /\ resp.op = "remove_langs" /\ resp.status = "200"
    /\ tokens[resp.repo] # {}

\* C25: unregister_token answers OK and leaves the token absent and every
\* other entry as it was; an absent token becomes present only by a
\* register_token for it, and get_langs for an absent token answers NotFound.
C25_UnregisterToken ==
    [][/\ \A p \in Handlers :
             MemEnds(p, "unregister_token")
                 => /\ resp'.status = "200"
                    /\ req[p].token \notin DOMAIN tokens'
                    /\ DOMAIN tokens' = DOMAIN tokens \ {req[p].token}
                    /\ \A x \in DOMAIN tokens' : tokens'[x] = tokens[x]
       /\ \A t \in Tokens :
             (t \notin DOMAIN tokens /\ t \in DOMAIN tokens')
                 => \E p \in Handlers : MemEnds(p, "register_token") /\ req[p].token = t
       /\ \A p \in Handlers :
             (MemEnds(p, "get_langs") /\ req[p].token \notin DOMAIN tokens)
                 => resp'.status = "404"]_vars

\* An unregister_token has just answered OK; its token is gone and the other
\* token is registered with a language.
C25_Witness ==
    /\ resp.op = "unregister_token" /\ resp.status = "200"
    /\ resp.repo \notin DOMAIN tokens
    /\ \E x \in DOMAIN tokens : tokens[x] # {}

\* C26: get_langs answers OK with exactly the languages stored for a
\* registered token, each once, and NotFound for any other token; it leaves
\* the registry as it is.
C26_GetLangs ==
    [][\A p \in Handlers :
          MemEnds(p, "get_langs")
              => LET t == req[p].token
                 IN /\ tokens' = tokens
                    /\ IF t \in DOMAIN tokens
                       THEN /\ resp'.status = "200"
                            /\ Len(resp'.body) = Cardinality(tokens[t])
                            /\ {resp'.body[i] : i \in DOMAIN resp'.body}
                                   = {to_string(l) : l \in tokens[t]}
                       ELSE /\ resp'.status = "404"
                            /\ resp'.body = <<>>]_vars

\* A get_langs has just returned two languages.
C26_Witness ==
    /\ resp.op = "get_langs" /\ resp.status = "200"
    /\ Len(resp.body) = 2

\* The seconds the expiry policy states for each class.
C27_Seconds ==
    [Hour |-> 3600, Day |-> 86400, Week |-> 604800, Quarter |-> 7257600, Year |-> 31536000]

C28_BackupUploadsUnlocked ==
    pc[Backup] = "upload" =>
        /\ \A r \in RepoNames : Backup \notin holders[r]
        /\ \A p \in Handlers : \A rq \in Requests :
               (/\ pc[p] = "idle"
                /\ RepoOf(rq.lang) = BackupRepo
                /\ holders[BackupRepo] = {}
                /\ ~poisoned[BackupRepo]
                /\ rq.op = "add" => next_uuid <= MaxId)
                   => ENABLED (HandlerLock(p, rq) /\ p \in holders'[BackupRepo])
        /\ \A p \in Handlers :
               p \in holders[BackupRepo]
                   => ENABLED ((AddBody(p) \/ GetBody(p) \/ EditBody(p) \/ DeleteBody(p))
                                  /\ holders'[BackupRepo] = {})
        /\ (/\ pc[Reaper] = "idle"
            /\ BackupRepo \in SweptRepos
            /\ holders[BackupRepo] = {}
            /\ ~poisoned[BackupRepo])
               => \A max_age \in MaxAges :
                      ENABLED (SweepLock(BackupRepo, max_age) /\ Reaper \in holders'[BackupRepo])
        /\ Reaper \in holders[BackupRepo] => ENABLED (SweepBody /\ holders'[BackupRepo] = {})

\* An add on the backed-up repository took the lock and stored its message
\* after the snapshot was made and before the upload finished.
C28_Witness ==
    /\ pc[Backup] = "upload"
    /\ resp.op = "add" /\ resp.repo = BackupRepo /\ resp.status = "200"
    /\ repo[BackupRepo] # <<>>

\* C29: after a perform_backup that failed, whether with an error or on an
\* unusable lock, the backup task is alive and waits for the next tick.
C29_FailedBackupKeepsTask ==
    [][(resp'.op = "backup" /\ resp'.status \in {"err", "panic"})
          => pc'[Backup] = "idle"]_vars

\* C30: a token that has no record in the table gets one only by a
\* register_token for it: no step of add_langs, remove_langs or
\* unregister_token brings a record into existence.
C30_OnlyRegisterCreates ==
    [][\A t \in Tokens :
          (~table[t].exists /\ table'[t].exists)
              => (resp'.op = "register_token" /\ resp'.repo = t)]_vars

\* C31: a register_token for a token that has a record leaves the languages
\* stored in that record as they were.
C31_RegisterKeepsLangs ==
    [][\A t \in Tokens :
          (/\ resp'.op = "register_token" /\ resp'.repo = t /\ resp'.status = "201"
           /\ table[t].exists)
              => table'[t].Langs = table[t].Langs]_vars

\* C32: in the in-memory registry the set of registered tokens changes only
\* in a step that ends a register_token, which adds its token, or an
\* unregister_token, which removes its token; a step that ends an add_langs,
\* remove_langs, get_langs or get_all_tokens leaves the set as it is.
C32_TokenSetFrame ==
    [][/\ DOMAIN tokens' # DOMAIN tokens
           => \E p \in Handlers :
                  \/ /\ MemEnds(p, "register_token")
                     /\ DOMAIN tokens' = DOMAIN tokens \cup {req[p].token}
                  \/ /\ MemEnds(p, "unregister_token")
                     /\ DOMAIN tokens' = DOMAIN tokens \ {req[p].token}
       /\ \A p \in Handlers :
              \A op \in {"add_langs", "remove_langs", "get_langs", "get_all_tokens"} :
                  MemEnds(p, op) => DOMAIN tokens' = DOMAIN tokens]_vars

\* An add_langs for a token that is not registered has just been refused
\* while the other token is registered: the refused token is still absent.
C32_Witness ==
    /\ resp.op = "add_langs" /\ resp.status = "404"
    /\ DOMAIN tokens # {}
    /\ resp.repo \notin DOMAIN tokens

\* C33: the middleware lets the wrapped service run (its handler takes the
\* lock, or fails at the lock with an internal server error) only for a
\* request whose x-api-key header is readable text equal to ADMIN_API_KEY;
\* a header that is not readable text is never accepted.
C33_ForwardsOnlyExactKey ==
    [][\A p \in Handlers :
          (/\ pc[p] = "auth" /\ pc'[p] # "auth"
           /\ (pc'[p] = "cs" \/ resp'.status = "500"))
              => /\ req[p].header.kind = "text"
                 /\ req[p].env.set
                 /\ req[p].header.value = req[p].env.value]_vars

\* C34: a delete of an id the repository holds answers OK and removes the
\* first message with that id and nothing else: the messages before it and
\* the messages after it are the same messages in the same order, and the
\* repository is one message shorter.
C34_DeleteRemovesOne ==
    [][\A p \in Handlers :
          (HandlerEnds(p, "delete") /\ req[p].id \in IdsOf(repo[RepoOf(req[p].lang)]))
              => LET old == repo[RepoOf(req[p].lang)]
                     new == repo'[RepoOf(req[p].lang)]
                 IN /\ resp'.status = "200"
                    /\ Len(new) = Len(old) - 1
                    /\ \E k \in 1..Len(old) :
                           /\ old[k].id = req[p].id
                           /\ \A j \in 1..(k - 1) : old[j].id # req[p].id /\ new[j] = old[j]
                           /\ \A j \in k..Len(new) : new[j] = old[j + 1]]_vars

\* A delete has just removed the older of two messages and left the newer.
C34_Witness ==
    /\ resp.op = "delete" /\ resp.status = "200"
    /\ deleted = {1}
    /\ Len(repo[resp.repo]) = 1
    /\ repo[resp.repo][1].id = 2
====
